---- MODULE Spec2Model ----
(***************************************************************************)
(* Model of the dependabot-action main flow: run(), the job-parameter      *)
(* retrieval getDependabotJobParameters(), the failure path failJob() and   *)
(* the export of the proxy endpoint and CA certificate.  Two variants of    *)
(* the main module exist in the repository (a minimal one and a richer      *)
(* one); both are modelled and the variable `variant' selects one.          *)
(*                                                                          *)
(* The collaborators whose code is outside the modelled files (ApiClient,   *)
(* ImageService, ProxyBuilder, the proxy container, the filesystem) are     *)
(* modelled by their outcome only: each call either returns, throws an      *)
(* Error, or throws a value that is not an Error.                           *)
(***************************************************************************)
EXTENDS Integers, Sequences, FiniteSets, TLC

\* ---------------------------------------------------------------- bounds
\* Number of distinct error messages a collaborator may throw.
NumMessages == 2
\* Largest job identifier carried by the job parameters.
MaxJobId == 1

MessageNames == <<"m1", "m2", "m3", "m4">>
Messages == {MessageNames[i] : i \in 1..NumMessages}
JobIds == 1..MaxJobId

\* ------------------------------------------------------ program constants
Unknown == "actions_workflow_unknown"
Image == "actions_workflow_image"
UpdateRun == "actions_workflow_updater"
DependabotErrorType == {Unknown, Image, UpdateRun}

\* The two variants of the main module.
Variants == {"minimal", "full"}

\* jobId before its first assignment (`let jobId: number').
UndefinedJobId == 0 - 1

\* ------------------------------------------------------------ input data
\* Credential entries the job-control service or the environment may hold.
CredentialEntries == {"cred_npm", "cred_maven"}
CredentialSets == SUBSET CredentialEntries

\* Values of the workflow inputs and of the environment overrides; the
\* empty string stands for "not set or empty".
ParamJobTokens == {"", "param-job-token"}
ParamCredTokens == {"", "param-cred-token"}
EnvJobTokens == {"", "env-job-token"}
EnvCredTokens == {"", "env-cred-token"}

\* Result of getJobParameters(context): null, or the parsed parameters.
NullParams ==
    [isNull |-> TRUE, jobId |-> 0, jobToken |-> "", credentialsToken |-> "",
     dependabotApiUrl |-> ""]
ValidParams ==
    [isNull : {FALSE}, jobId : JobIds, jobToken : ParamJobTokens,
     credentialsToken : ParamCredTokens, dependabotApiUrl : {"api-url"}]
ParamsValues == {NullParams} \cup ValidParams

\* DEPENDABOT_CREDENTIALS: unset, text that is not JSON, or a credential list.
EnvCredentialValues ==
    [kind : {"unset", "malformed"}, entries : {{}}]
      \cup [kind : {"json"}, entries : CredentialSets]

\* The experiments of the job details: absent, or a set of <<flag, value>>.
ExperimentValues ==
    [defined : {FALSE}, flags : {{}}]
      \cup [defined : {TRUE},
            flags : {{}, {<<"proxy-cached", TRUE>>}, {<<"proxy-cached", FALSE>>},
                     {<<"other-flag", TRUE>>}}]

\* A thrown value: an Error carrying a message, or a value that is not an Error.
NoError == [thrown |-> FALSE, isError |-> FALSE, message |-> ""]
ThrownValues ==
    [thrown : {TRUE}, isError : {TRUE}, message : Messages]
      \cup {[thrown |-> TRUE, isError |-> FALSE, message |-> ""]}

Stages == {"getJobDetails", "getCredentials", "parseEnv", "pull", "reportJobError",
           "markJobAsProcessed", "proxyBuilder.run", "container.start",
           "proxy.url", "export"}

\* How the process was started: the main module run directly, or the CLI.
Entries == {"main", "cli"}

VARIABLES
    entry,          \* the entrypoint of the process
    cleanup,        \* cleanup.run() of the CLI: "idle", "started"
    variant,        \* which main module runs
    params,         \* getJobParameters(context)
    env,            \* process.env
    pc,             \* position of run()
    jobId,          \* module-level `let jobId'
    tokens,         \* jobToken / credentialsToken of getDependabotJobParameters
    details,        \* result of apiClient.getJobDetails()
    jobParameters,  \* result of getDependabotJobParameters()
    locals,         \* {jobToken, dependabotApiUrl, cachedMode, credentials, apiClient} of run()
    outcome,        \* per stage: "pending", "ok", "error" (threw an Error), "nonerror"
    pullError,      \* the value ImageService.pull threw
    calls,          \* job-control requests made, in order
    log,            \* core.info lines, in order
    secrets,        \* values registered with core.setSecret
    failed,         \* messages given to core.setFailed, in order
    builder,        \* arguments ProxyBuilder was constructed and run with
    container,      \* proxy container: "none", "created", "started"
    savedState,     \* names saved with core.saveState
    files,          \* files written, in order
    exported        \* variables exported with core.exportVariable, in order

vars == <<entry, cleanup, variant, params, env, pc, jobId, tokens, details, jobParameters, locals,
          outcome, pullError, calls, log, secrets, failed, builder, container,
          savedState, files, exported>>

\* --------------------------------------------------------------- helpers
NullJobParameters ==
    [isNull |-> TRUE, jobToken |-> "", dependabotApiUrl |-> "",
     cachedMode |-> FALSE, credentials |-> {}, apiClient |-> FALSE]

NoBuilder ==
    [constructed |-> FALSE, cachedMode |-> FALSE, ran |-> FALSE,
     jobId |-> UndefinedJobId, jobToken |-> "", dependabotApiUrl |-> "",
     credentials |-> {}]

\* `a || b' on strings: the first operand unless it is empty.
OrElse(a, b) == IF a # "" THEN a ELSE b

\* JavaScript truthiness of the module-level jobId.
Truthy(id) == id # UndefinedJobId /\ id # 0

\* botSay(message): one core.info line; data is what the line interpolates.
botSay(message, data) == Append(log, [msg |-> message, data |-> data])

\* setFailed(message, error): the message is extended with the error and the
\* job help (the URL of jobId) only when jobId is set.  `data' is what the
\* message text interpolates.
setFailedMessage(message, data, error) ==
    [msg |-> message,
     data |-> IF Truthy(jobId) THEN data \cup {error.message} ELSE data,
     help |-> IF Truthy(jobId) THEN jobId ELSE UndefinedJobId]

setFailed(message, data, error) ==
    Append(failed, setFailedMessage(message, data, error))

\* core.setFailed(errorMessage) called directly, without the job help.
coreSetFailed(message) ==
    Append(failed, [msg |-> message, data |-> {}, help |-> UndefinedJobId])

\* details.experiments?.hasOwnProperty('proxy-cached') === true
CachedModeOf(experiments) ==
    experiments.defined /\ \E f \in experiments.flags : f[1] = "proxy-cached"

\* getCredentialsFromEnv(): the value it returns when the text parses.
getCredentialsFromEnv ==
    [isNull |-> FALSE, jobToken |-> "", dependabotApiUrl |-> "",
     cachedMode |-> TRUE,
     credentials |-> IF env.credentials.kind = "json" THEN env.credentials.entries ELSE {},
     apiClient |-> FALSE]

\* ------------------------------------------------------------------ Init
Init ==
    /\ entry \in Entries
    /\ cleanup = "idle"
    /\ variant \in Variants
    /\ params \in ParamsValues
    /\ env \in [jobToken : EnvJobTokens, credToken : EnvCredTokens,
                credentials : EnvCredentialValues]
    /\ pc = "start"
    /\ jobId = UndefinedJobId
    /\ tokens = [jobToken |-> "", credentialsToken |-> "", apiClient |-> FALSE]
    /\ details = [fetched |-> FALSE, experiments |-> [defined |-> FALSE, flags |-> {}]]
    /\ jobParameters = NullJobParameters
    /\ locals = NullJobParameters
    /\ outcome = [s \in Stages |-> "pending"]
    /\ pullError = NoError
    /\ calls = <<>>
    /\ log = <<>>
    /\ secrets = {}
    /\ failed = <<>>
    /\ builder = NoBuilder
    /\ container = "none"
    /\ savedState = {}
    /\ files = <<>>
    /\ exported = <<>>

\* --------------------------------------------------------------- actions
\* run(): the two log lines before getDependabotJobParameters is called.
RunStart ==
    /\ pc = "start"
    /\ log' = Append(botSay("inputs", {params.jobToken, params.credentialsToken} \ {""}),
                     [msg |-> "starting update", data |-> {}])
    /\ pc' = "getParams"
    /\ UNCHANGED <<entry, cleanup, variant, params, env, jobId, tokens, details, jobParameters, locals,
                   outcome, pullError, calls, secrets, failed, builder, container,
                   savedState, files, exported>>

\* run() is called without await: it runs up to its first await (the one on
\* getJobDetails, or the one on the promise of getDependabotJobParameters)
\* and hands control back to the entry script.
AtFirstAwait == pc \in {"getJobDetails", "destructure"} /\ outcome["getJobDetails"] = "pending"

\* The CLI: `run(ctx)' followed by `cleanup.run()', which begins as soon as
\* run(ctx) has returned its pending promise.
CleanupRun ==
    /\ entry = "cli"
    /\ cleanup = "idle"
    /\ AtFirstAwait
    /\ cleanup' = "started"
    /\ UNCHANGED <<entry, variant, params, env, pc, jobId, tokens, details, jobParameters,
                   locals, outcome, pullError, calls, log, secrets, failed, builder,
                   container, savedState, files, exported>>

\* The continuation of run() after its first await runs only once the entry
\* script has run to its end: in the CLI, after cleanup.run() was called.
Resumable == entry = "cli" => cleanup = "started"

\* A job-control request as the service sees it.
Call(op) == [op |-> op, errorType |-> "", actionError |-> ""]

\* getDependabotJobParameters validating the job token only: an empty
\* credentials token reaches the ApiClient.
GetJobParameters_NoCredentialsCheck ==
    /\ pc = "getParams"
    /\ LET jobToken == OrElse(env.jobToken, params.jobToken)
           credentialsToken == OrElse(env.credToken, params.credentialsToken)
       IN  IF params.isNull
           THEN /\ log' = botSay("finished: nothing to do", {})
                /\ pc' = "destructure"
                /\ UNCHANGED <<failed, jobId, secrets, tokens>>
           ELSE IF jobToken = ""
           THEN /\ log' = botSay("finished: Github Dependabot job token is not set", {})
                /\ failed' = coreSetFailed("Github Dependabot job token is not set")
                /\ pc' = "destructure"
                /\ UNCHANGED <<jobId, secrets, tokens>>
           ELSE /\ jobId' = params.jobId
                /\ secrets' = secrets \cup {jobToken, credentialsToken}
                /\ tokens' = [jobToken |-> jobToken,
                              credentialsToken |-> credentialsToken,
                              apiClient |-> TRUE]
                /\ log' = Append(log, [msg |-> "Fetching job details", data |-> {}])
                /\ pc' = "getJobDetails"
                /\ UNCHANGED failed
    /\ UNCHANGED <<entry, cleanup, variant, params, env, details, jobParameters, locals, outcome,
                   pullError, calls, builder, container, savedState, files, exported>>

\* getDependabotJobParameters(), up to its first await: the parameters, the
\* environment override, the token validation, jobId and the secrets.
GetJobParameters ==
    /\ pc = "getParams"
    /\ LET jobToken == OrElse(env.jobToken, params.jobToken)
           credentialsToken == OrElse(env.credToken, params.credentialsToken)
       IN  IF params.isNull
           THEN /\ log' = botSay("finished: nothing to do", {})
                /\ pc' = "destructure"
                /\ UNCHANGED <<failed, jobId, secrets, tokens>>
           ELSE IF jobToken = ""
           THEN /\ log' = botSay("finished: Github Dependabot job token is not set", {})
                /\ failed' = coreSetFailed("Github Dependabot job token is not set")
                /\ pc' = "destructure"
                /\ UNCHANGED <<jobId, secrets, tokens>>
           ELSE IF credentialsToken = ""
           THEN /\ log' = botSay("finished: Github Dependabot credentials token is not set", {})
                /\ failed' = coreSetFailed("Github Dependabot credentials token is not set")
                /\ pc' = "destructure"
                /\ UNCHANGED <<jobId, secrets, tokens>>
           ELSE /\ jobId' = params.jobId
                /\ secrets' = secrets \cup {jobToken, credentialsToken}
                /\ tokens' = [jobToken |-> jobToken,
                              credentialsToken |-> credentialsToken,
                              apiClient |-> TRUE]
                /\ log' = Append(log, [msg |-> "Fetching job details", data |-> {}])
                /\ pc' = "getJobDetails"
                /\ UNCHANGED failed
    /\ UNCHANGED <<entry, cleanup, variant, params, env, details, jobParameters, locals, outcome,
                   pullError, calls, builder, container, savedState, files, exported>>

\* The catch block of getDependabotJobParameters: an Error is reported
\* locally and null is returned; any other value is thrown again.
CatchJobParameters(stage, error) ==
    /\ outcome' = [outcome EXCEPT ![stage] = IF error.isError THEN "error" ELSE "nonerror"]
    /\ IF error.isError
       THEN /\ failed' = setFailed("Dependabot encountered an unexpected problem", {}, error)
            /\ log' = botSay("finished: unexpected error", {error.message})
            /\ pc' = "destructure"
       ELSE /\ pc' = "rejected"
            /\ UNCHANGED <<failed, log>>

\* await apiClient.getJobDetails()
GetJobDetails ==
    /\ pc = "getJobDetails"
    /\ Resumable
    /\ calls' = Append(calls, Call("getJobDetails"))
    /\ \/ \E experiments \in ExperimentValues :
            /\ details' = [fetched |-> TRUE, experiments |-> experiments]
            /\ outcome' = [outcome EXCEPT !["getJobDetails"] = "ok"]
            /\ pc' = "getCredentials"
            /\ UNCHANGED <<failed, log>>
       \/ \E error \in ThrownValues :
            /\ CatchJobParameters("getJobDetails", error)
            /\ UNCHANGED details
    /\ UNCHANGED <<entry, cleanup, variant, params, env, jobId, tokens, jobParameters, locals,
                   pullError, secrets, builder, container, savedState, files, exported>>

\* await apiClient.getCredentials(), and the value returned on success.
GetCredentials ==
    /\ pc = "getCredentials"
    /\ calls' = Append(calls, Call("getCredentials"))
    /\ \/ \E credentials \in CredentialSets :
            /\ jobParameters' =
                 [isNull |-> FALSE,
                  jobToken |-> tokens.jobToken,
                  dependabotApiUrl |-> params.dependabotApiUrl,
                  cachedMode |-> CachedModeOf(details.experiments),
                  credentials |-> credentials,
                  apiClient |-> tokens.apiClient]
            /\ outcome' = [outcome EXCEPT !["getCredentials"] = "ok"]
            /\ pc' = "destructure"
            /\ UNCHANGED <<failed, log>>
       \/ \E error \in ThrownValues :
            /\ CatchJobParameters("getCredentials", error)
            /\ UNCHANGED jobParameters
    /\ UNCHANGED <<entry, cleanup, variant, params, env, jobId, tokens, details, locals,
                   pullError, secrets, builder, container, savedState, files, exported>>

\* const {...} = jobParameters || getCredentialsFromEnv(); JSON.parse throws
\* on text that is not JSON and run() rejects.
Destructure ==
    /\ pc = "destructure"
    /\ Resumable
    /\ IF ~jobParameters.isNull
       THEN /\ locals' = jobParameters
            /\ pc' = "pull"
            /\ UNCHANGED outcome
       ELSE IF env.credentials.kind = "malformed"
       THEN /\ outcome' = [outcome EXCEPT !["parseEnv"] = "error"]
            /\ pc' = "rejected"
            /\ UNCHANGED locals
       ELSE /\ locals' = getCredentialsFromEnv
            /\ outcome' = [outcome EXCEPT !["parseEnv"] = "ok"]
            /\ pc' = "pull"
    /\ UNCHANGED <<entry, cleanup, variant, params, env, jobId, tokens, details, jobParameters,
                   pullError, calls, log, secrets, failed, builder, container,
                   savedState, files, exported>>

\* try { await ImageService.pull(PROXY_IMAGE_NAME) } catch: an Error goes to
\* failJob and run returns; any other thrown value leaves the catch block and
\* run continues.
Pull ==
    /\ pc = "pull"
    /\ \/ /\ outcome' = [outcome EXCEPT !["pull"] = "ok"]
          /\ pc' = "build"
          /\ UNCHANGED pullError
       \/ \E error \in ThrownValues :
            /\ pullError' = error
            /\ outcome' = [outcome EXCEPT !["pull"] = IF error.isError THEN "error" ELSE "nonerror"]
            /\ pc' = IF error.isError THEN "failJob" ELSE "build"
    /\ UNCHANGED <<entry, cleanup, variant, params, env, jobId, tokens, details, jobParameters, locals,
                   calls, log, secrets, failed, builder, container, savedState, files,
                   exported>>

\* The report built without the errorType argument of the call, so that the
\* parameter's default (Unknown) is sent.
ErrorReport_DefaultType(errorType, error) ==
    [op |-> "reportJobError", errorType |-> Unknown, actionError |-> error.message]

\* The body of the remote error report built by failJob.
ErrorReport(errorType, error) ==
    [op |-> "reportJobError", errorType |-> errorType, actionError |-> error.message]

\* The arguments run() gives failJob for a failed pull.
FailJobMessage == "Error fetching updater images"
FailJobMessageData == {pullError.message}
FailJobErrorType == Image

\* failJob retrying a report that threw: the request is sent a second time
\* before the failure is given up.
FailJobReport_Retry ==
    /\ pc = "failJob"
    /\ IF locals.apiClient
       THEN \/ /\ calls' = Append(calls, ErrorReport(FailJobErrorType, pullError))
               /\ outcome' = [outcome EXCEPT !["reportJobError"] = "ok"]
               /\ pc' = "failJobMark"
            \/ /\ calls' = Append(Append(calls, ErrorReport(FailJobErrorType, pullError)),
                                  ErrorReport(FailJobErrorType, pullError))
               /\ outcome' = [outcome EXCEPT !["reportJobError"] = "error"]
               /\ pc' = "rejected"
       ELSE /\ pc' = "failJobSetFailed"
            /\ UNCHANGED <<calls, outcome>>
    /\ UNCHANGED <<entry, cleanup, variant, params, env, jobId, tokens, details, jobParameters, locals,
                   pullError, log, secrets, failed, builder, container, savedState,
                   files, exported>>

\* failJob without its `if (apiClient)' guard: the report is made on every
\* failed pull.
FailJobReport_Unguarded ==
    /\ pc = "failJob"
    /\ calls' = Append(calls, ErrorReport(FailJobErrorType, pullError))
    /\ \/ /\ outcome' = [outcome EXCEPT !["reportJobError"] = "ok"]
          /\ pc' = "failJobMark"
       \/ /\ outcome' = [outcome EXCEPT !["reportJobError"] = "error"]
          /\ pc' = "rejected"
    /\ UNCHANGED <<entry, cleanup, variant, params, env, jobId, tokens, details, jobParameters, locals,
                   pullError, log, secrets, failed, builder, container, savedState,
                   files, exported>>

\* failJob: `if (apiClient) await apiClient.reportJobError(...)'.  The request
\* is made and then either returns or throws; a throw rejects run().
FailJobReport ==
    /\ pc = "failJob"
    /\ IF locals.apiClient
       THEN /\ calls' = Append(calls, ErrorReport(FailJobErrorType, pullError))
            /\ \/ /\ outcome' = [outcome EXCEPT !["reportJobError"] = "ok"]
                  /\ pc' = "failJobMark"
               \/ /\ outcome' = [outcome EXCEPT !["reportJobError"] = "error"]
                  /\ pc' = "rejected"
       ELSE /\ pc' = "failJobSetFailed"
            /\ UNCHANGED <<calls, outcome>>
    /\ UNCHANGED <<entry, cleanup, variant, params, env, jobId, tokens, details, jobParameters, locals,
                   pullError, log, secrets, failed, builder, container, savedState,
                   files, exported>>

\* failJob finalizing without waiting for the report's result: the job is
\* marked as processed although reportJobError threw.
FailJobMark_AfterFailedReport ==
    /\ pc \in {"failJobMark", "rejected"}
    /\ outcome["reportJobError"] # "pending"
    /\ outcome["markJobAsProcessed"] = "pending"
    /\ calls' = Append(calls, Call("markJobAsProcessed"))
    /\ outcome' = [outcome EXCEPT !["markJobAsProcessed"] = "ok"]
    /\ pc' = IF pc = "rejected" THEN "rejected" ELSE "failJobSetFailed"
    /\ UNCHANGED <<entry, cleanup, variant, params, env, jobId, tokens, details, jobParameters, locals,
                   pullError, log, secrets, failed, builder, container, savedState,
                   files, exported>>

\* failJob: `await apiClient.markJobAsProcessed()', reached only after the
\* report returned.
FailJobMark ==
    /\ pc = "failJobMark"
    /\ calls' = Append(calls, Call("markJobAsProcessed"))
    /\ \/ /\ outcome' = [outcome EXCEPT !["markJobAsProcessed"] = "ok"]
          /\ pc' = "failJobSetFailed"
       \/ /\ outcome' = [outcome EXCEPT !["markJobAsProcessed"] = "error"]
          /\ pc' = "rejected"
    /\ UNCHANGED <<entry, cleanup, variant, params, env, jobId, tokens, details, jobParameters, locals,
                   pullError, log, secrets, failed, builder, container, savedState,
                   files, exported>>

\* failJob: setFailed(message, error), the closing log line, and the
\* `return' of run() that follows the call.
FailJobSetFailed ==
    /\ pc = "failJobSetFailed"
    /\ failed' = setFailed(FailJobMessage, FailJobMessageData, pullError)
    /\ log' = botSay("finished: error reported to Dependabot", {})
    /\ pc' = "done"
    /\ UNCHANGED <<entry, cleanup, variant, params, env, jobId, tokens, details, jobParameters, locals,
                   outcome, pullError, calls, secrets, builder, container, savedState,
                   files, exported>>

\* new ProxyBuilder(docker, PROXY_IMAGE_NAME, cachedMode) and
\* await proxyBuilder.run(jobId, jobToken, dependabotApiUrl, credentials).
BuildProxy ==
    /\ pc = "build"
    /\ builder' = [constructed |-> TRUE, cachedMode |-> locals.cachedMode, ran |-> TRUE,
                   jobId |-> jobId, jobToken |-> locals.jobToken,
                   dependabotApiUrl |-> locals.dependabotApiUrl,
                   credentials |-> locals.credentials]
    /\ \/ /\ outcome' = [outcome EXCEPT !["proxyBuilder.run"] = "ok"]
          /\ container' = "created"
          /\ log' = Append(Append(botSay("initialize proxy builder", {}),
                                  [msg |-> "building proxy", data |-> {}]),
                           [msg |-> "start proxy", data |-> {}])
          /\ pc' = "startProxy"
       \/ /\ outcome' = [outcome EXCEPT !["proxyBuilder.run"] = "error"]
          /\ log' = Append(botSay("initialize proxy builder", {}),
                           [msg |-> "building proxy", data |-> {}])
          /\ pc' = "rejected"
          /\ UNCHANGED container
    /\ UNCHANGED <<entry, cleanup, variant, params, env, jobId, tokens, details, jobParameters, locals,
                   pullError, calls, secrets, failed, savedState, files, exported>>

\* await proxy.container.start(), then core.saveState('PROXY_CONTAINER_ID', ...).
StartProxy ==
    /\ pc = "startProxy"
    /\ \/ /\ outcome' = [outcome EXCEPT !["container.start"] = "ok"]
          /\ container' = "started"
          /\ savedState' = savedState \cup {"PROXY_CONTAINER_ID"}
          /\ pc' = "url"
       \/ /\ outcome' = [outcome EXCEPT !["container.start"] = "error"]
          /\ pc' = "rejected"
          /\ UNCHANGED <<container, savedState>>
    /\ UNCHANGED <<entry, cleanup, variant, params, env, jobId, tokens, details, jobParameters, locals,
                   pullError, calls, log, secrets, failed, builder, files, exported>>

\* new URL(await proxy.url()): the readiness poll may time out.
ProxyUrl ==
    /\ pc = "url"
    /\ \/ /\ outcome' = [outcome EXCEPT !["proxy.url"] = "ok"]
          /\ pc' = "writeFiles"
       \/ /\ outcome' = [outcome EXCEPT !["proxy.url"] = "error"]
          /\ pc' = "rejected"
    /\ UNCHANGED <<entry, cleanup, variant, params, env, jobId, tokens, details, jobParameters, locals,
                   pullError, calls, log, secrets, failed, builder, container,
                   savedState, files, exported>>

\* The files written when the Maven settings also carry the registry
\* credentials as server entries.
FilesOf_WithServers(v) ==
    IF v = "full"
    THEN << [path |-> "keystore.p12", data |-> {"cert", "dummy-key"}],
            [path |-> "cert.pem", data |-> {"cert"}],
            [path |-> "settings.xml",
             data |-> {"proxy-host", "proxy-port"} \cup locals.credentials] >>
    ELSE << [path |-> "keystore.p12", data |-> {"cert"}] >>

\* The files each variant writes, in order: the PKCS#12 trust store (with a
\* dummy key and a password in the full variant), the PEM certificate and
\* the Maven settings carrying the proxy endpoint.
FilesOf(v) ==
    IF v = "full"
    THEN << [path |-> "keystore.p12", data |-> {"cert", "dummy-key"}],
            [path |-> "cert.pem", data |-> {"cert"}],
            [path |-> "settings.xml", data |-> {"proxy-host", "proxy-port"}] >>
    ELSE << [path |-> "keystore.p12", data |-> {"cert"}] >>

\* One writeFileSync (the first preceded by the PKCS#12 construction, the
\* last by mkdirSync); any of them may throw, which rejects run().
WriteFile ==
    /\ pc = "writeFiles"
    /\ Len(files) < Len(FilesOf(variant))
    /\ \/ /\ files' = Append(files, FilesOf(variant)[Len(files) + 1])
          /\ IF Len(files') = Len(FilesOf(variant))
             THEN /\ outcome' = [outcome EXCEPT !["export"] = "ok"]
                  /\ pc' = "export"
             ELSE UNCHANGED <<outcome, pc>>
       \/ /\ outcome' = [outcome EXCEPT !["export"] = "error"]
          /\ pc' = "rejected"
          /\ UNCHANGED files
    /\ UNCHANGED <<entry, cleanup, variant, params, env, jobId, tokens, details, jobParameters, locals,
                   pullError, calls, log, secrets, failed, builder, container,
                   savedState, exported>>

JavaSslOpts(v) ==
    IF v = "full" THEN {"trust-store-path", "trust-store-password"}
    ELSE {"trust-store-path"}
JavaProxyOpts == {"proxy-host", "proxy-port"}

\* The core.exportVariable calls of each variant, in order.
ExportsOf(v) ==
    IF v = "full"
    THEN << [name |-> "MAVEN_OPTS",
             data |-> JavaSslOpts(v) \cup JavaProxyOpts \cup {"env.MAVEN_OPTS"}],
            [name |-> "GRADLE_OPTS",
             data |-> JavaSslOpts(v) \cup JavaProxyOpts \cup {"env.GRADLE_OPTS"}],
            [name |-> "SEMMLE_JAVA_EXTRACTOR_JVM_ARGS",
             data |-> JavaSslOpts(v) \cup JavaProxyOpts
                        \cup {"env.SEMMLE_JAVA_EXTRACTOR_JVM_ARGS"}],
            [name |-> "CODEQL_JAVA_EXTRACTOR_TRUST_STORE_PATH", data |-> {"trust-store-path"}],
            [name |-> "PROXY_NETWORK_NAME", data |-> {"network-name"}],
            [name |-> "PROXY_HOST", data |-> {"proxy-host"}],
            [name |-> "PROXY_PORT", data |-> {"proxy-port"}],
            [name |-> "PROXY_CA_CERT", data |-> {"pem-path"}] >>
    ELSE << [name |-> "MAVEN_OPTS",
             data |-> JavaSslOpts(v) \cup JavaProxyOpts \cup {"env.MAVEN_OPTS"}],
            [name |-> "GRADLE_OPTS",
             data |-> JavaSslOpts(v) \cup JavaProxyOpts \cup {"env.GRADLE_OPTS"}] >>

\* One core.exportVariable call; run() returns after the last.
ExportVariable ==
    /\ pc = "export"
    /\ Len(exported) < Len(ExportsOf(variant))
    /\ exported' = Append(exported, ExportsOf(variant)[Len(exported) + 1])
    /\ pc' = IF Len(exported') = Len(ExportsOf(variant)) THEN "done" ELSE "export"
    /\ UNCHANGED <<entry, cleanup, variant, params, env, jobId, tokens, details, jobParameters, locals,
                   outcome, pullError, calls, log, secrets, failed, builder, container,
                   savedState, files>>

Next ==
    \/ RunStart
    \/ CleanupRun
    \/ GetJobParameters
    \/ GetJobDetails
    \/ GetCredentials
    \/ Destructure
    \/ Pull
    \/ FailJobReport
    \/ FailJobMark
    \/ FailJobSetFailed
    \/ BuildProxy
    \/ StartProxy
    \/ ProxyUrl
    \/ WriteFile
    \/ ExportVariable

Spec == Init /\ [][Next]_vars

\* ------------------------------------------------------- claim vocabulary
\* run() has ended: it returned, or its promise was rejected.
RunEnded == pc \in {"done", "rejected"}

Failed(stage) == outcome[stage] \in {"error", "nonerror"}

CallIndexes(op) == {i \in 1..Len(calls) : calls[i].op = op}
Called(op) == CallIndexes(op) # {}

\* The stages of run() that follow the retrieval of the credentials.
PipelineStages == {"pull", "proxyBuilder.run", "container.start", "proxy.url", "export"}

CredentialsFetched == outcome["getCredentials"] = "ok"

\* reportJobError was called and markJobAsProcessed was called after it.
ReportedThenProcessed ==
    \E i \in CallIndexes("reportJobError") :
        \E j \in CallIndexes("markJobAsProcessed") : i < j

\* C1: once getCredentials has succeeded, a run in which a later pipeline
\* stage failed ends with reportJobError called and then markJobAsProcessed.
C1_FailureAfterCredentialsIsReported ==
    (RunEnded /\ CredentialsFetched /\ \E s \in PipelineStages : Failed(s))
        => ReportedThenProcessed

\* C2: a run that fetched the credentials ends with markJobAsProcessed
\* called exactly once, as the last job-control call of the run.
C2_ProcessedExactlyOnceAndLast ==
    (RunEnded /\ CredentialsFetched)
        => /\ Cardinality(CallIndexes("markJobAsProcessed")) = 1
           /\ calls[Len(calls)].op = "markJobAsProcessed"

\* C3: when getJobDetails or getCredentials failed, the run makes no
\* reportJobError and no markJobAsProcessed call, also when the image pull
\* fails afterwards.
C3_NoRemoteReportAfterFetchFailure ==
    (Failed("getJobDetails") \/ Failed("getCredentials"))
        => ~Called("reportJobError") /\ ~Called("markJobAsProcessed")

\* C3 witness: the fetch of the job details failed, the pull failed after it
\* and failJob ran to its end.
C3_Witness ==
    /\ Failed("getJobDetails")
    /\ outcome["pull"] = "error"
    /\ pc = "done"
    /\ Len(failed) = 2

\* C4: a failure of getJobDetails ends the pipeline: no image pull, no
\* proxyBuilder.run, no container start and no exported variable follow it.
C4_JobDetailsFailureIsTerminal ==
    Failed("getJobDetails")
        => /\ outcome["pull"] = "pending"
           /\ ~builder.ran
           /\ container = "none"
           /\ exported = <<>>

\* C5: markJobAsProcessed is called only after a reportJobError call of the
\* same run has returned.
C5_ProcessedOnlyAfterReport ==
    \A j \in CallIndexes("markJobAsProcessed") :
        /\ \E i \in CallIndexes("reportJobError") : i < j
        /\ outcome["reportJobError"] = "ok"

\* C5 witness: a failed pull was reported and the job marked as processed.
C5_Witness ==
    /\ outcome["pull"] = "error"
    /\ Called("markJobAsProcessed")

\* The report failJob is to send for the failed pull.
PullErrorReport ==
    [op |-> "reportJobError", errorType |-> Image, actionError |-> pullError.message]

C7_NoProxyAfterPullFailure ==
    Failed("pull") => ~builder.ran /\ container = "none"

\* The job details were fetched, were returned to run() and carry the
\* experiment flag 'proxy-cached' with value true.
ProxyCachedEnabled ==
    /\ ~jobParameters.isNull
    /\ details.fetched
    /\ details.experiments.defined
    /\ <<"proxy-cached", TRUE>> \in details.experiments.flags

\* C8: the cachedMode given to ProxyBuilder is true exactly when the fetched
\* job details carry 'proxy-cached' enabled, and false in every other run.
C8_CachedModeIsOptIn ==
    builder.constructed => (builder.cachedMode <=> ProxyCachedEnabled)

\* Everything the run has written outside the proxy builder.
SinkData ==
    UNION ( {log[i].data : i \in 1..Len(log)}
            \cup {failed[i].data : i \in 1..Len(failed)}
            \cup {files[i].data : i \in 1..Len(files)}
            \cup {exported[i].data : i \in 1..Len(exported)}
            \cup {savedState} )

\* What a file may hold: the CA certificate in its two forms (the PKCS#12
\* form wraps it with a throwaway key) and the proxy endpoint.
PersistableData == {"cert", "dummy-key", "proxy-host", "proxy-port"}

\* C9: no credential entry is ever written to a file, to saved state, to an
\* exported variable or to a log line; the files hold only the CA
\* certificate and the proxy endpoint, and proxyBuilder.run is given the
\* credential set of the run.
C9_CredentialsNeverPersisted ==
    /\ SinkData \cap CredentialEntries = {}
    /\ \A i \in 1..Len(files) :
          /\ files[i].path \in {"keystore.p12", "cert.pem", "settings.xml"}
          /\ files[i].data \subseteq PersistableData
    /\ builder.ran => builder.credentials = locals.credentials

\* C9 witness: a run that holds both credential entries has handed them to
\* the builder, written every file and exported every variable.
C9_Witness ==
    /\ pc = "done"
    /\ variant = "full"
    /\ locals.credentials = CredentialEntries
    /\ builder.ran
    /\ Len(files) = 3
    /\ Len(exported) = 8

ExportedNames == {exported[i].name : i \in 1..Len(exported)}
WrittenPaths == {files[i].path : i \in 1..Len(files)}

\* The five outputs of the published proxy contract.
ProxyOutputs ==
    {"PROXY_HOST", "PROXY_PORT", "CODEQL_JAVA_EXTRACTOR_TRUST_STORE_PATH",
     "PROXY_CA_CERT", "PROXY_NETWORK_NAME"}

\* C10 (full variant): a run whose stages all succeed ends with the five
\* outputs exported; the trust store and the PEM file are written before any
\* variable naming their path is exported; and a run in which a stage failed
\* exports none of the outputs.
C10_OutputsOnlyOnSuccess ==
    variant = "full" =>
        /\ (pc = "done" /\ \A s \in Stages : ~Failed(s))
              => ProxyOutputs \subseteq ExportedNames
        /\ \A i \in 1..Len(exported) :
              /\ "trust-store-path" \in exported[i].data => "keystore.p12" \in WrittenPaths
              /\ "pem-path" \in exported[i].data => "cert.pem" \in WrittenPaths
        /\ (\E s \in Stages : Failed(s)) => ExportedNames \cap ProxyOutputs = {}

\* C11: in one run reportJobError is called at most once and
\* markJobAsProcessed is called at most once, whatever the stages do.
C11_AtMostOneReportAndOneFinalize ==
    /\ Cardinality(CallIndexes("reportJobError")) <= 1
    /\ Cardinality(CallIndexes("markJobAsProcessed")) <= 1

\* C11 witness: a run that ended having made each of the two calls.
C11_Witness ==
    /\ RunEnded
    /\ Cardinality(CallIndexes("reportJobError")) = 1
    /\ Cardinality(CallIndexes("markJobAsProcessed")) = 1

\* C12: a run in which ImageService.pull failed (threw an Error) has called core.setFailed
\* by the time it ends: without an apiClient, with a report that succeeds,
\* and with a reportJobError or markJobAsProcessed that fails.
C12_PullFailureMarksRunFailed ==
    (RunEnded /\ outcome["pull"] = "error") => Len(failed) > 0

\* C13: a run that ends after proxyBuilder.run returned a created container
\* has saved the container's id to state as PROXY_CONTAINER_ID, also when
\* proxy.container.start or proxy.url failed.
C13_CreatedContainerIsSaved ==
    (RunEnded /\ outcome["proxyBuilder.run"] = "ok")
        => "PROXY_CONTAINER_ID" \in savedState

\* The token in effect: the environment variable when set and not empty,
\* the parameter otherwise.
EffectiveJobToken == IF env.jobToken # "" THEN env.jobToken ELSE params.jobToken
EffectiveCredentialsToken ==
    IF env.credToken # "" THEN env.credToken ELSE params.credentialsToken

\* The parameters are present and one of the two tokens in effect is empty.
TokenMissing ==
    /\ ~params.isNull
    /\ EffectiveJobToken = "" \/ EffectiveCredentialsToken = ""

\* C14: when the job token or the credentials token in effect is empty, the
\* run is marked failed once the tokens have been validated, and no
\* job-control request is made at any point of the run.
C14_MissingTokenFailsWithoutRequests ==
    TokenMissing
        => /\ calls = <<>>
           /\ pc \notin {"start", "getParams"} => Len(failed) > 0

\* C14 witness: the job token comes from the environment, the credentials
\* token is empty in both places, and the run has gone on to its end.
C14_Witness ==
    /\ TokenMissing
    /\ EffectiveJobToken = "env-job-token"
    /\ EffectiveCredentialsToken = ""
    /\ RunEnded
    /\ Len(failed) > 0

\* C15: whenever proxyBuilder.run is invoked, the job identifier given to it
\* was set from the parameters of the run, on every path including the
\* local-environment fallback.
C15_BuilderJobIdIsDefined ==
    builder.ran => builder.jobId # UndefinedJobId /\ builder.jobId = params.jobId

\* C16: in the CLI, cleanup.run does not begin before the pipeline started
\* by run(ctx) has finished.
C16_CleanupAfterRun ==
    cleanup = "started" => RunEnded

\* C17: the job token and the credentials token in effect are registered
\* with core.setSecret before any log line that contains them is emitted: no
\* state holds a log line with such a token that is not yet a secret.
C17_TokensMaskedBeforeLogged ==
    \A i \in 1..Len(log) :
        (log[i].data \cap {EffectiveJobToken, EffectiveCredentialsToken}) \subseteq secrets

====
